---- MODULE Spec2Model ----
(***************************************************************************)
(* Model of the week5_consolidation crate: three lending processors        *)
(* (PaymentsData and CsvPaymentsData in src/lib.rs, JSONPayments in        *)
(* src/day1_replication.rs), each an owned Vec<String> plus a `position`   *)
(* cursor, with the operations next_payment and process.                   *)
(*                                                                         *)
(* The three processors are built from the same sequence and driven by the *)
(* same calls, so that their results can be compared call by call.  Every  *)
(* call is one atomic step: the async fns have no suspension point.        *)
(***************************************************************************)
EXTENDS Integers, Sequences, FiniteSets, TLC

\* ---------------------------------------------------------------- bounds
MaxLen == 3
MaxCalls == 5
MaxExtra == 2

\* ------------------------------------------------- records and closures
\* Raw record strings a store may hold: the first two JSON sample payments
\* and the second CSV row of the tests.
JSON1 == "{date:2025-01-01,amount:100.0,method:credit,is_successful:true}"
JSON2 == "{date:2025-01-02,amount:50.0,method:debit,is_successful:true}"
CSV2 == "2025-01-02,150.0,debit,false"
Records == {JSON1, JSON2, CSV2}

Kinds == {"PaymentsData", "CsvPaymentsData", "JSONPayments"}

\* Outcomes of a call: Option::None, Option::Some(v), or a panic that
\* unwinds out of the call.
None == [tag |-> "None"]
Some(v) == [tag |-> "Some", val |-> v]
Panic == [tag |-> "Panic"]

\* Result of running a caller-supplied closure on one record: a value, or
\* a panic raised by unwrap() / indexing inside the closure.
Ok(v) == [ok |-> TRUE, val |-> v]
Fail == [ok |-> FALSE]

\* |json| serde_json::from_str::<PaymentInfo>(json).unwrap().amount
extract_amount(json) ==
    CASE json = JSON1 -> Ok(100)
      [] json = JSON2 -> Ok(50)
      [] OTHER -> Fail

\* |csv| split(',')[1].trim_matches('"').parse::<f64>().unwrap()
extract_amount_field(csv_str) ==
    CASE csv_str = CSV2 -> Ok(150)
      [] OTHER -> Fail

Closures == {"extract_amount", "extract_amount_field"}

Apply(f, r) ==
    IF f = "extract_amount" THEN extract_amount(r) ELSE extract_amount_field(r)

\* Vec<String> indexing `v[i]` with a 0-based usize index: in bounds it
\* yields the element, out of bounds it panics.
InBounds(v, i) == i < Len(v)
At(v, i) == v[i + 1]

\* What one call leaves behind: the store, the outcome, the index it read
\* from the Vec (-1 when it read nothing) and how often it invoked f.
NoIdx == -1
Effect(self, ret, idx, f_calls) ==
    [self |-> self, ret |-> ret, idx |-> idx, f_calls |-> f_calls]

\* ------------------------------------------------------------ PaymentsData
\* Variants of PaymentsData::next_payment with a boundary slip.
\* Exhausts one record early: `position + 1 >= len`.
next_payment_PaymentsData_early(self) ==
    IF self.position + 1 >= Len(self.tx_list)
    THEN Effect(self, None, NoIdx, 0)
    ELSE Effect([self EXCEPT !.position = self.position + 1],
                Some(At(self.tx_list, self.position)), self.position, 0)

\* Moves the cursor even when there is nothing left to return.
next_payment_PaymentsData_overrun(self) ==
    IF self.position >= Len(self.tx_list)
    THEN Effect([self EXCEPT !.position = self.position + 1], None, NoIdx, 0)
    ELSE Effect([self EXCEPT !.position = self.position + 1],
                Some(At(self.tx_list, self.position)), self.position, 0)

\* Tests exhaustion with `position > len`.
next_payment_PaymentsData_gt(self) ==
    IF self.position > Len(self.tx_list)
    THEN Effect(self, None, NoIdx, 0)
    ELSE IF ~InBounds(self.tx_list, self.position)
         THEN Effect(self, Panic, self.position, 0)
         ELSE Effect([self EXCEPT !.position = self.position + 1],
                     Some(At(self.tx_list, self.position)), self.position, 0)

next_payment_PaymentsData(self) ==
    IF self.position >= Len(self.tx_list)
    THEN Effect(self, None, NoIdx, 0)
    ELSE IF ~InBounds(self.tx_list, self.position)
         THEN Effect(self, Panic, self.position, 0)
         ELSE Effect([self EXCEPT !.position = self.position + 1],
                     Some(At(self.tx_list, self.position)), self.position, 0)

\* Variants of Option::map: one runs f on None too, one runs f twice.
map_on_none(e, f) ==
    LET t == IF e.ret.tag = "Some" THEN Apply(f, e.ret.val) ELSE Fail
    IN Effect(e.self, IF t.ok THEN Some(t.val) ELSE Panic, e.idx, e.f_calls + 1)

map_twice(e, f) ==
    IF e.ret.tag = "Some"
    THEN LET t == Apply(f, e.ret.val)
         IN Effect(e.self, IF t.ok THEN Some(t.val) ELSE Panic, e.idx, e.f_calls + 2)
    ELSE e

\* Variant that swallows a failure of f and reports None instead.
map_catch(e, f) ==
    IF e.ret.tag = "Some"
    THEN LET t == Apply(f, e.ret.val)
         IN Effect(e.self, IF t.ok THEN Some(t.val) ELSE None, e.idx, e.f_calls + 1)
    ELSE e

\* Option::map(f) on the outcome of next_payment: f runs once on Some.
map(e, f) ==
    IF e.ret.tag = "Some"
    THEN LET t == Apply(f, e.ret.val)
         IN Effect(e.self, IF t.ok THEN Some(t.val) ELSE Panic, e.idx, e.f_calls + 1)
    ELSE e

\* Variant of process that reads the record without advancing the cursor.
process_PaymentsData_peek(self, f) ==
    LET e == next_payment_PaymentsData(self)
    IN map(Effect(self, e.ret, e.idx, e.f_calls), f)

process_PaymentsData(self, f) == map(next_payment_PaymentsData(self), f)

\* --------------------------------------------------------- CsvPaymentsData
\* Variant that starts over from the first row once the rows are used up.
next_payment_CsvPaymentsData_wrap(self) ==
    IF self.position >= Len(self.rows)
    THEN Effect([self EXCEPT !.position = 0], None, NoIdx, 0)
    ELSE Effect([self EXCEPT !.position = self.position + 1],
                Some(At(self.rows, self.position)), self.position, 0)

\* Variant that removes the row it hands out instead of moving the cursor.
next_payment_CsvPaymentsData_drain(self) ==
    IF Len(self.rows) = 0
    THEN Effect(self, None, NoIdx, 0)
    ELSE Effect([self EXCEPT !.rows = Tail(self.rows)],
                Some(Head(self.rows)), 0, 0)

\* Variant that tests exhaustion with `len == position`.
next_payment_CsvPaymentsData_eq(self) ==
    IF Len(self.rows) = self.position
    THEN Effect(self, None, NoIdx, 0)
    ELSE IF ~InBounds(self.rows, self.position)
         THEN Effect(self, Panic, self.position, 0)
         ELSE Effect([self EXCEPT !.position = self.position + 1],
                     Some(At(self.rows, self.position)), self.position, 0)

next_payment_CsvPaymentsData(self) ==
    IF self.position >= Len(self.rows)
    THEN Effect(self, None, NoIdx, 0)
    ELSE IF ~InBounds(self.rows, self.position)
         THEN Effect(self, Panic, self.position, 0)
         ELSE Effect([self EXCEPT !.position = self.position + 1],
                     Some(At(self.rows, self.position)), self.position, 0)

\* Variant of process that keeps a cursor of its own: it reads the row at the
\* shared cursor but does not move it.
process_CsvPaymentsData_peek(self, f) ==
    LET e == next_payment_CsvPaymentsData(self)
    IN map(Effect(self, e.ret, e.idx, e.f_calls), f)

process_CsvPaymentsData(self, f) == map(next_payment_CsvPaymentsData(self), f)

\* ------------------------------------------------------------ JSONPayments
\* Variant that reports exhaustion one record early: `len == position + 1`.
next_payment_JSONPayments_early(self) ==
    IF Len(self.tx_list) = self.position + 1 \/ Len(self.tx_list) = self.position
    THEN Effect(self, None, NoIdx, 0)
    ELSE Effect([self EXCEPT !.position = self.position + 1],
                Some(At(self.tx_list, self.position)), self.position, 0)

\* Variant that steps the cursor by two.
next_payment_JSONPayments_skip(self) ==
    IF Len(self.tx_list) = self.position
    THEN Effect(self, None, NoIdx, 0)
    ELSE IF ~InBounds(self.tx_list, self.position)
         THEN Effect(self, Panic, self.position, 0)
         ELSE Effect([self EXCEPT !.position = self.position + 2],
                     Some(At(self.tx_list, self.position)), self.position, 0)

next_payment_JSONPayments(self) ==
    IF Len(self.tx_list) = self.position
    THEN Effect(self, None, NoIdx, 0)
    ELSE IF ~InBounds(self.tx_list, self.position)
         THEN Effect(self, Panic, self.position, 0)
         ELSE Effect([self EXCEPT !.position = self.position + 1],
                     Some(At(self.tx_list, self.position)), self.position, 0)

\* Variant of process that puts the cursor back when f fails.
process_JSONPayments_rollback(self, f) ==
    LET e == map(next_payment_JSONPayments(self), f)
    IN IF e.ret = Panic THEN Effect(self, e.ret, e.idx, e.f_calls) ELSE e

process_JSONPayments(self, f) == map(next_payment_JSONPayments(self), f)

\* ------------------------------------------------------------------ state
VARIABLES
    pd,        \* PaymentsData { tx_list, position }
    csv,       \* CsvPaymentsData { rows, position }
    json,      \* JSONPayments { tx_list, position }
    init_seq,  \* the sequence the stores were constructed with
    call,      \* the last thing the caller did: [op, f]
    ret,       \* outcome of the last call, per processor
    idx,       \* Vec index read by the last call, per processor
    f_calls,   \* invocations of f by the last call, per processor
    history,   \* every call so far with its outcomes, oldest first
    held       \* per processor, the indices of the records of which the
               \* caller still holds a borrowed view (&'a str)

vars == <<pd, csv, json, init_seq, call, ret, idx, f_calls, history, held>>

SeqsUpTo(n) == UNION {[1..m -> Records] : m \in 0..n}

NoCall == [op |-> "none", f |-> "none"]

\* A store literal `X { tx_list: seq, position: p }`, before any call.
Constructed(seq, p) ==
    /\ pd = [tx_list |-> seq, position |-> p]
    /\ csv = [rows |-> seq, position |-> p]
    /\ json = [tx_list |-> seq, position |-> p]
    /\ init_seq = seq
    /\ call = NoCall
    /\ ret = [k \in Kinds |-> None]
    /\ idx = [k \in Kinds |-> NoIdx]
    /\ f_calls = [k \in Kinds |-> 0]
    /\ history = <<>>
    /\ held = [k \in Kinds |-> {}]

\* Variant of the receiver: with `&self` a call would not need the earlier
\* views to be gone.
ExclusiveBorrow_shared(h) == TRUE

\* `&mut self`: a call can only be made while no view borrowed from the
\* store is alive; the returned Payment<'_> keeps that borrow active.
ExclusiveBorrow(h) == \A k \in Kinds : h[k] = {}

Init == \E seq \in SeqsUpTo(MaxLen) : Constructed(seq, 0)

\* The caller applies one call to each processor and records what came back.
Apply3(c, e_pd, e_csv, e_json) ==
    /\ pd' = e_pd.self
    /\ csv' = e_csv.self
    /\ json' = e_json.self
    /\ call' = c
    /\ ret' = [k \in Kinds |-> CASE k = "PaymentsData" -> e_pd.ret
                                 [] k = "CsvPaymentsData" -> e_csv.ret
                                 [] OTHER -> e_json.ret]
    /\ idx' = [k \in Kinds |-> CASE k = "PaymentsData" -> e_pd.idx
                                 [] k = "CsvPaymentsData" -> e_csv.idx
                                 [] OTHER -> e_json.idx]
    /\ f_calls' = [k \in Kinds |-> CASE k = "PaymentsData" -> e_pd.f_calls
                                     [] k = "CsvPaymentsData" -> e_csv.f_calls
                                     [] OTHER -> e_json.f_calls]
    /\ history' = Append(history, [op |-> c.op, f |-> c.f, ret |-> ret'])
    /\ UNCHANGED init_seq

NextPayment ==
    /\ Len(history) < MaxCalls
    /\ ExclusiveBorrow(held)
    /\ Apply3([op |-> "next_payment", f |-> "none"],
              next_payment_PaymentsData(pd),
              next_payment_CsvPaymentsData(csv),
              next_payment_JSONPayments(json))
    /\ held' = [k \in Kinds |->
                  IF ret'[k].tag = "Some" THEN held[k] \cup {idx'[k]} ELSE held[k]]

\* The view handed to f ends with the call: T is chosen outside the
\* per-call lifetime and cannot carry the borrow out.
Process(f) ==
    /\ Len(history) < MaxCalls
    /\ ExclusiveBorrow(held)
    /\ UNCHANGED held
    /\ Apply3([op |-> "process", f |-> f],
              process_PaymentsData(pd, f),
              process_CsvPaymentsData(csv, f),
              process_JSONPayments(json, f))

\* The caller lets go of the views it holds (their last use has passed).
DropView ==
    /\ \E k \in Kinds : held[k] # {}
    /\ held' = [k \in Kinds |-> {}]
    /\ call' = [op |-> "drop", f |-> "none"]
    /\ UNCHANGED <<pd, csv, json, init_seq, ret, idx, f_calls, history>>

Next ==
    \/ NextPayment
    \/ \E f \in Closures : Process(f)
    \/ DropView

Spec == Init /\ [][Next]_vars

\* Stores built directly with any cursor, also one beyond the sequence: the
\* fields are plain struct fields and a literal may set `position` freely.
InitDirect ==
    \E seq \in SeqsUpTo(MaxLen) :
        \E p \in 0..(Len(seq) + MaxExtra) : Constructed(seq, p)

SpecDirect == InitDirect /\ [][Next]_vars

\* ---------------------------------------------------------------- helpers
Position(k) ==
    CASE k = "PaymentsData" -> pd.position
      [] k = "CsvPaymentsData" -> csv.position
      [] OTHER -> json.position

List(k) ==
    CASE k = "PaymentsData" -> pd.tx_list
      [] k = "CsvPaymentsData" -> csv.rows
      [] OTHER -> json.tx_list

TypeOK ==
    /\ \A k \in Kinds : Position(k) \in Nat /\ List(k) \in SeqsUpTo(MaxLen + 1)
    /\ call.op \in {"none", "next_payment", "process", "drop"}
    /\ Len(history) <= MaxCalls + 1

\* The record a store would hand out next, when it has one.
Available(k) == Position(k) < Len(List(k))
Current(k) == At(List(k), Position(k))

NextPaymentOnly == \A i \in 1..Len(history) : history[i].op = "next_payment"

\* ----------------------------------------------------------------- claims

\* C1: on a store of length N built with cursor 0 and driven by next_payment
\* only, the k-th call returns Some of the k-th string for k <= N and every
\* call after the N-th returns None.
C1_Sequential ==
    NextPaymentOnly =>
        \A k \in Kinds : \A i \in 1..Len(history) :
            history[i].ret[k] = IF i <= Len(init_seq) THEN Some(init_seq[i]) ELSE None

C1_Witness ==
    /\ NextPaymentOnly
    /\ Len(init_seq) >= 2
    /\ Len(history) >= Len(init_seq) + 2
    /\ history[Len(init_seq)].ret["PaymentsData"] = Some(init_seq[Len(init_seq)])
    /\ ret["PaymentsData"] = None

\* C2: process on a store whose cursor equals the sequence length (an empty
\* store included) returns None and does not invoke f.
C2_ProcessExhausted ==
    [][\A k \in Kinds :
          (call'.op = "process" /\ Position(k) = Len(List(k)))
              => (ret'[k] = None /\ f_calls'[k] = 0)]_vars

C2_Witness ==
    /\ call.op = "process"
    /\ Len(history) = 1
    /\ init_seq = <<>>
    /\ \A k \in Kinds : ret[k] = None /\ f_calls[k] = 0

\* C3: process(f) on a store whose cursor is below the length returns
\* Some(f(r)) for the record r at the cursor before the call (when f yields a
\* value) and leaves the store as a next_payment call from the same state
\* would: cursor + 1, sequence unchanged.
C3_ProcessAdvances ==
    [][(call'.op = "process" /\ Available("PaymentsData"))
          => /\ (Apply(call'.f, Current("PaymentsData")).ok
                   => ret'["PaymentsData"]
                        = Some(Apply(call'.f, Current("PaymentsData")).val))
             /\ pd' = next_payment_PaymentsData(pd).self
             /\ pd'.position = pd.position + 1
             /\ pd'.tx_list = pd.tx_list
             /\ csv' = next_payment_CsvPaymentsData(csv).self
             /\ json' = next_payment_JSONPayments(json).self]_vars

C3_Witness ==
    /\ call = [op |-> "process", f |-> "extract_amount"]
    /\ ret["PaymentsData"] = Some(50)
    /\ pd.position = 2
    /\ pd.tx_list[2] = JSON2

\* C4: in every state reachable from cursor 0 the cursor of each processor
\* satisfies 0 <= cursor <= length(sequence).
C4_CursorInRange ==
    \A k \in Kinds : 0 <= Position(k) /\ Position(k) <= Len(List(k))

C4_Witness ==
    /\ Len(init_seq) >= 1
    /\ Len(history) >= Len(init_seq) + 2
    /\ \A k \in Kinds : Position(k) = Len(List(k))

\* C5: once the cursor equals the sequence length, a further next_payment
\* returns None and leaves the cursor there; no call ever decreases a cursor.
C5_ExhaustionTerminal ==
    [][\A k \in Kinds :
          /\ Position(k)' >= Position(k)
          /\ (call'.op = "next_payment" /\ Position(k) = Len(List(k)))
                => (ret'[k] = None /\ Position(k)' = Len(List(k)'))]_vars

C5_Witness ==
    /\ Len(init_seq) >= 1
    /\ Len(history) >= 3
    /\ call.op = "next_payment"
    /\ history[Len(history) - 1].op = "next_payment"
    /\ history[Len(history) - 1].ret["CsvPaymentsData"] = None
    /\ ret["CsvPaymentsData"] = None
    /\ csv.position = Len(csv.rows)

\* C6: one process call invokes f exactly once when a record is available and
\* not at all otherwise; never more than once.
C6_AtMostOnce ==
    [][\A k \in Kinds :
          call'.op = "process"
              => /\ f_calls'[k] <= 1
                 /\ f_calls'[k] = IF Available(k) THEN 1 ELSE 0]_vars

C6_Witness ==
    /\ call.op = "process"
    /\ \A k \in Kinds : f_calls[k] = 1 /\ ret[k].tag = "Some"

\* C7: started from the same sequence and cursor 0 and driven by the same
\* calls, the three processors return the same result at every step and hold
\* the same cursor after every step.
C7_Equivalent ==
    /\ \A i \in 1..Len(history) :
          /\ history[i].ret["PaymentsData"] = history[i].ret["JSONPayments"]
          /\ history[i].ret["CsvPaymentsData"] = history[i].ret["JSONPayments"]
    /\ pd.position = json.position
    /\ csv.position = json.position
    /\ pd.tx_list = json.tx_list
    /\ csv.rows = json.tx_list

C7_Witness ==
    /\ Len(init_seq) >= 2
    /\ Len(history) >= Len(init_seq) + 1
    /\ json.position = Len(json.tx_list)
    /\ ret["JSONPayments"] = None
    /\ history[1].ret["JSONPayments"].tag = "Some"

\* C8: no call changes the stored sequence: after any calls, whether they
\* returned a record or None, it is the sequence given at construction.
C8_SequenceFixed ==
    \A k \in Kinds : List(k) = init_seq

C8_Witness ==
    /\ Len(init_seq) >= 2
    /\ \E i \in 1..Len(history) : history[i].ret["CsvPaymentsData"].tag = "Some"
    /\ \E i \in 1..Len(history) : history[i].ret["CsvPaymentsData"] = None
    /\ \E i \in 1..Len(history) : history[i].op = "process"
    /\ \E i \in 1..Len(history) : history[i].op = "next_payment"

\* C9: a next_payment call that returns a record moves the cursor by exactly
\* one, and the record is the one at the cursor held before the call.
C9_StepByOne ==
    [][\A k \in Kinds :
          (call'.op = "next_payment" /\ ret'[k].tag = "Some")
              => /\ Position(k)' = Position(k) + 1
                 /\ Available(k)
                 /\ ret'[k].val = Current(k)
                 /\ idx'[k] = Position(k)]_vars

C9_Witness ==
    /\ call.op = "next_payment"
    /\ ret["JSONPayments"] = Some(CSV2)
    /\ json.position = 2
    /\ json.tx_list[2] = CSV2

\* C10: the index next_payment reads the sequence at is always below the
\* sequence length, so no call panics on an out-of-bounds access, for any
\* length (0 included) and any number of calls after exhaustion; a panic can
\* only come out of f.
C10_NoOutOfBounds ==
    \A k \in Kinds :
        /\ idx[k] # NoIdx => (0 <= idx[k] /\ idx[k] < Len(List(k)))
        /\ call.op = "next_payment" => ret[k] # Panic
        /\ ret[k] = Panic => (call.op = "process" /\ f_calls[k] = 1)

C10_Witness ==
    /\ init_seq = <<>>
    /\ Len(history) >= 3
    /\ call.op = "next_payment"
    /\ \A k \in Kinds : ret[k] = None /\ idx[k] = NoIdx

\* C11: a failure of f inside process is not caught, retried or turned into
\* None: the process call itself ends with that failure, after one run of f.
C11_FailurePropagates ==
    [][\A k \in Kinds :
          (call'.op = "process" /\ Available(k)
             /\ ~Apply(call'.f, Current(k)).ok)
              => (ret'[k] = Panic /\ ret'[k] # None /\ f_calls'[k] = 1)]_vars

C11_Witness ==
    /\ call = [op |-> "process", f |-> "extract_amount"]
    /\ Len(history) = 1
    /\ Len(init_seq) >= 1
    /\ init_seq[1] = CSV2
    /\ \A k \in Kinds : ret[k] = Panic /\ f_calls[k] = 1

\* What the i-th call of the history owes its caller when it operates on the
\* i-th record of the constructed sequence: next_payment the record itself,
\* process the outcome of f on it; None once the records are used up.
Owed(i) ==
    IF i > Len(init_seq) THEN None
    ELSE IF history[i].op = "next_payment" THEN Some(init_seq[i])
    ELSE LET t == Apply(history[i].f, init_seq[i])
         IN IF t.ok THEN Some(t.val) ELSE Panic

\* C13: next_payment and process share one cursor: in any interleaving on a
\* store of length N started at cursor 0, the k-th call overall (k <= N)
\* operates on the k-th record, whichever kind of call it is, so no record is
\* skipped or delivered twice, and every call after the N-th returns None.
C13_SharedCursor ==
    \A k \in Kinds :
        /\ \A i \in 1..Len(history) : history[i].ret[k] = Owed(i)
        /\ Position(k) = IF Len(history) <= Len(init_seq)
                         THEN Len(history) ELSE Len(init_seq)

C13_Witness ==
    /\ init_seq = <<JSON1, JSON2, JSON1>>
    /\ Len(history) = 4
    /\ history[1].op = "next_payment"
    /\ history[1].ret["JSONPayments"] = Some(JSON1)
    /\ history[2].op = "process"
    /\ history[2].ret["JSONPayments"] = Some(50)
    /\ history[3].op = "next_payment"
    /\ history[3].ret["JSONPayments"] = Some(JSON1)
    /\ history[4].op = "next_payment"
    /\ history[4].ret["JSONPayments"] = None

\* The i-th call was a process call whose f failed on the record it was given.
FailedAt(k, i) ==
    /\ history[i].op = "process"
    /\ history[i].ret[k] = Panic

\* C14: process moves the cursor before it runs f, so a failing f leaves the
\* cursor past the record f was given, and the call after it gets the
\* following record (or None), never the record f failed on.
C14_AdvancedBeforeF ==
    \A k \in Kinds :
        /\ \A i \in 1..Len(history) :
              FailedAt(k, i) =>
                  /\ i <= Len(init_seq)
                  /\ ~Apply(history[i].f, init_seq[i]).ok
                  /\ Position(k) >= i
                  /\ i < Len(history) =>
                        history[i + 1].ret[k]
                            = IF i + 1 > Len(init_seq) THEN None
                              ELSE IF history[i + 1].op = "next_payment"
                                   THEN Some(init_seq[i + 1])
                                   ELSE LET t == Apply(history[i + 1].f, init_seq[i + 1])
                                        IN IF t.ok THEN Some(t.val) ELSE Panic
        /\ (Len(history) >= 1 /\ FailedAt(k, Len(history)))
              => Position(k) = Len(history)

C14_Witness ==
    /\ init_seq = <<CSV2, JSON1>>
    /\ Len(history) = 2
    /\ history[1].op = "process"
    /\ history[1].f = "extract_amount"
    /\ history[1].ret["JSONPayments"] = Panic
    /\ history[2].op = "next_payment"
    /\ history[2].ret["JSONPayments"] = Some(JSON1)
    /\ json.position = 2

\* C15: on a store whose cursor is strictly greater than the sequence length
\* (constructible directly, not reachable from cursor 0), next_payment of
\* PaymentsData and CsvPaymentsData returns None and leaves the cursor
\* unchanged, without an out-of-bounds access.
C15_BeyondLength ==
    [][\A k \in {"PaymentsData", "CsvPaymentsData"} :
          (call'.op = "next_payment" /\ Position(k) > Len(List(k)))
              => /\ ret'[k] = None
                 /\ Position(k)' = Position(k)
                 /\ List(k)' = List(k)
                 /\ idx'[k] = NoIdx]_vars

C15_Witness ==
    /\ call.op = "next_payment"
    /\ Len(history) >= 2
    /\ pd.position > Len(pd.tx_list)
    /\ csv.position > Len(csv.rows)
    /\ Len(init_seq) >= 1
    /\ ret["PaymentsData"] = None
    /\ ret["CsvPaymentsData"] = None

\* C12: at most one borrowed view of a record is alive at any time: the view
\* returned by next_payment has to be released before the next call on the
\* same store can begin, so a view that is held is the one the last call
\* returned, and no two views of one store are held together.
C12_OneViewAlive ==
    \A k \in Kinds :
        /\ Cardinality(held[k]) <= 1
        /\ held[k] # {} =>
              /\ Len(history) >= 1
              /\ history[Len(history)].op = "next_payment"
              /\ history[Len(history)].ret[k].tag = "Some"
              /\ held[k] = {Position(k) - 1}

C12_Witness ==
    /\ Len(history) = 2
    /\ history[1].op = "next_payment"
    /\ history[1].ret["PaymentsData"].tag = "Some"
    /\ call.op = "next_payment"
    /\ held["PaymentsData"] = {1}

====
